---- MODULE Spec2Model ----
(***************************************************************************)
(* qtum-address-rust: conversion between base58check Qtum addresses and    *)
(* 20-byte hexadecimal (Ethereum style) addresses.                         *)
(*                                                                         *)
(* Strings are modelled as sequences of their UTF-8 bytes (0..255), byte   *)
(* vectors as sequences of 0..255.  A 32-bit word is the pair              *)
(* <<high 16 bits, low 16 bits>>, so that no intermediate value leaves     *)
(* the range of a 32-bit signed integer.                                   *)
(***************************************************************************)
EXTENDS Integers, Sequences, FiniteSets, TLC

(***************************************************************************)
(* SHA-256 (FIPS 180-4), as computed by bitcoin_hashes::sha256::Hash::hash. *)
(***************************************************************************)
Pow2 == <<1, 2, 4, 8, 16, 32, 64, 128, 256, 512, 1024, 2048, 4096, 8192, 16384, 32768, 65536>>

RECURSIVE Xor3(_, _, _, _)
\* Bitwise exclusive or of the n low bits of a, b and c.
Xor3(a, b, c, n) ==
  IF n = 0 THEN 0
  ELSE ((a + b + c) % 2) + 2 * Xor3(a \div 2, b \div 2, c \div 2, n - 1)

RECURSIVE ChBits(_, _, _, _)
\* Bitwise choice on n bits: (x AND y) XOR (NOT x AND z).
ChBits(x, y, z, n) ==
  IF n = 0 THEN 0
  ELSE (IF x % 2 = 1 THEN y % 2 ELSE z % 2)
         + 2 * ChBits(x \div 2, y \div 2, z \div 2, n - 1)

RECURSIVE MajBits(_, _, _, _)
\* Bitwise majority on n bits: (x AND y) XOR (x AND z) XOR (y AND z).
MajBits(x, y, z, n) ==
  IF n = 0 THEN 0
  ELSE (((x % 2) + (y % 2) + (z % 2)) \div 2)
         + 2 * MajBits(x \div 2, y \div 2, z \div 2, n - 1)

\* Rotation of the word w to the right by n bits, 0 <= n < 32.
Rotr(w, n) ==
  LET hi == IF n < 16 THEN w[1] ELSE w[2]
      lo == IF n < 16 THEN w[2] ELSE w[1]
      m  == n % 16
      p  == Pow2[m + 1]
      q  == Pow2[17 - m]
  IN  << (hi \div p) + (lo % p) * q, (lo \div p) + (hi % p) * q >>

\* Logical shift of the word w to the right by n bits, 0 < n < 16.
Shr(w, n) ==
  LET p == Pow2[n + 1]
      q == Pow2[17 - n]
  IN  << w[1] \div p, (w[2] \div p) + (w[1] % p) * q >>

XorWords(a, b, c) == << Xor3(a[1], b[1], c[1], 16), Xor3(a[2], b[2], c[2], 16) >>

BigSigma0(x) == XorWords(Rotr(x, 2), Rotr(x, 13), Rotr(x, 22))
BigSigma1(x) == XorWords(Rotr(x, 6), Rotr(x, 11), Rotr(x, 25))
SmallSigma0(x) == XorWords(Rotr(x, 7), Rotr(x, 18), Shr(x, 3))
SmallSigma1(x) == XorWords(Rotr(x, 17), Rotr(x, 19), Shr(x, 10))
Ch(x, y, z) == << ChBits(x[1], y[1], z[1], 16), ChBits(x[2], y[2], z[2], 16) >>
Maj(x, y, z) == << MajBits(x[1], y[1], z[1], 16), MajBits(x[2], y[2], z[2], 16) >>

RECURSIVE SumHalves(_, _)
SumHalves(ws, k) ==
  IF ws = <<>> THEN 0 ELSE Head(ws)[k] + SumHalves(Tail(ws), k)

\* wrapping_add of the words of the sequence ws (at most 5 of them).
AddWords(ws) ==
  LET lo == SumHalves(ws, 2)
      hi == SumHalves(ws, 1) + (lo \div 65536)
  IN  << hi % 65536, lo % 65536 >>

\* Round constants and initial hash value.
K256 ==
  <<
     <<17034, 12184>>, <<28983, 17553>>, <<46528, 64463>>, <<59829, 56229>>,
     <<14678, 49755>>, <<23025, 4593>>, <<37439, 33444>>, <<43804, 24277>>,
     <<55303, 43672>>, <<4739, 23297>>, <<9265, 34238>>, <<21772, 32195>>,
     <<29374, 23924>>, <<32990, 45566>>, <<39900, 1703>>, <<49563, 61812>>,
     <<58523, 27073>>, <<61374, 18310>>, <<4033, 40390>>, <<9228, 41420>>,
     <<11753, 11375>>, <<19060, 33962>>, <<23728, 43484>>, <<30457, 35034>>,
     <<38974, 20818>>, <<43057, 50797>>, <<45059, 10184>>, <<48985, 32711>>,
     <<50912, 3059>>, <<54695, 37191>>, <<1738, 25425>>, <<5161, 10599>>,
     <<10167, 2693>>, <<11803, 8504>>, <<19756, 28156>>, <<21304, 3347>>,
     <<25866, 29524>>, <<30314, 2747>>, <<33218, 51502>>, <<37490, 11397>>,
     <<41663, 59553>>, <<43034, 26187>>, <<49739, 35696>>, <<51052, 20899>>,
     <<53650, 59417>>, <<54937, 1572>>, <<62478, 13701>>, <<4202, 41072>>,
     <<6564, 49430>>, <<7735, 27656>>, <<10056, 30540>>, <<13488, 48309>>,
     <<14620, 3251>>, <<20184, 43594>>, <<23452, 51791>>, <<26670, 28659>>,
     <<29839, 33518>>, <<30885, 25455>>, <<33992, 30740>>, <<36039, 520>>,
     <<37054, 65530>>, <<42064, 27883>>, <<48889, 41975>>, <<50801, 30962>>
  >>

H256 ==
  <<
     <<27145, 58983>>, <<47975, 44677>>, <<15470, 62322>>, <<42319, 62778>>,
     <<20750, 21119>>, <<39685, 26764>>, <<8067, 55723>>, <<23520, 52505>>
  >>

\* Padding: the message, 0x80, zeros up to 56 mod 64, the bit length on 8 bytes.
Sha256Pad(msg) ==
  LET n     == Len(msg)
      zeros == (119 - n) % 64
      bits  == 8 * n
  IN  msg \o <<128>> \o [i \in 1..zeros |-> 0]
          \o <<0, 0, 0, 0, (bits \div 16777216) % 256, (bits \div 65536) % 256,
               (bits \div 256) % 256, bits % 256>>

\* The 16 big-endian words of block number b (from 0) of the padded message.
BlockWords(padded, b) ==
  [t \in 1..16 |->
     LET o == 64 * b + 4 * (t - 1)
     IN  << padded[o + 1] * 256 + padded[o + 2], padded[o + 3] * 256 + padded[o + 4] >>]

RECURSIVE Schedule(_)
\* The message schedule W[1..64], extended from the 16 words of the block.
Schedule(w) ==
  IF Len(w) = 64 THEN w
  ELSE LET t == Len(w) + 1
       IN  Schedule(Append(w, AddWords(<<SmallSigma1(w[t - 2]), w[t - 7],
                                         SmallSigma0(w[t - 15]), w[t - 16]>>)))

\* One round on the working variables v = <<a, b, c, d, e, f, g, h>>, with the
\* schedule word wt and the round constant kt.
Round(v, wt, kt) ==
  LET t1 == AddWords(<<v[8], BigSigma1(v[5]), Ch(v[5], v[6], v[7]), kt, wt>>)
      t2 == AddWords(<<BigSigma0(v[1]), Maj(v[1], v[2], v[3])>>)
  IN  <<AddWords(<<t1, t2>>), v[1], v[2], v[3], AddWords(<<v[4], t1>>), v[5], v[6], v[7]>>

RECURSIVE Rounds(_, _)
\* The rounds from s.t to 64 on the working variables s.v, with the schedule w.
Rounds(s, w) ==
  IF s.t > 64 THEN s.v
  ELSE Rounds([v |-> Round(s.v, w[s.t], K256[s.t]), t |-> s.t + 1], w)

Compress(h, block) ==
  LET v == Rounds([v |-> h, t |-> 1], Schedule(block))
  IN  [i \in 1..8 |-> AddWords(<<h[i], v[i]>>)]

RECURSIVE Blocks(_, _, _)
Blocks(h, padded, b) ==
  IF 64 * b >= Len(padded) THEN h
  ELSE Blocks(Compress(h, BlockWords(padded, b)), padded, b + 1)

\* The 32-byte digest of the byte sequence msg.
Sha256(msg) ==
  LET h == Blocks(H256, Sha256Pad(msg), 0)
  IN  [k \in 1..32 |->
         LET half == h[((k - 1) \div 4) + 1][IF (k - 1) % 4 < 2 THEN 1 ELSE 2]
         IN  IF (k - 1) % 2 = 0 THEN half \div 256 ELSE half % 256]

(***************************************************************************)
(* The hex crate: hex::encode and hex::decode.                             *)
(***************************************************************************)
HexChars == <<48, 49, 50, 51, 52, 53, 54, 55, 56, 57, 97, 98, 99, 100, 101, 102>>  \* "0123456789abcdef"

\* hex::encode: two lowercase digits per byte.
HexEncode(bytes) ==
  [i \in 1..(2 * Len(bytes)) |->
     LET b == bytes[(i + 1) \div 2]
     IN  HexChars[(IF i % 2 = 1 THEN b \div 16 ELSE b % 16) + 1]]

\* A hex digit value that knows no upper case digits.
HexValLowerOnly(c) ==
  IF c >= 48 /\ c <= 57 THEN c - 48
  ELSE IF c >= 97 /\ c <= 102 THEN c - 87
  ELSE -1

\* The value of one hex digit, upper or lower case; -1 for any other byte
\* (hex's InvalidHexCharacter).
HexVal(c) ==
  IF c >= 48 /\ c <= 57 THEN c - 48           \* b'0'..=b'9'
  ELSE IF c >= 97 /\ c <= 102 THEN c - 87     \* b'a'..=b'f'
  ELSE IF c >= 65 /\ c <= 70 THEN c - 55      \* b'A'..=b'F'
  ELSE -1

\* hex::decode: Err on an odd length or on a byte that is no hex digit.
HexDecode(s) ==
  IF Len(s) % 2 # 0 \/ (\E i \in 1..Len(s) : HexVal(s[i]) = -1)
  THEN [ok |-> FALSE, bytes |-> <<>>]
  ELSE [ok |-> TRUE,
        bytes |-> [i \in 1..(Len(s) \div 2) |-> HexVal(s[2 * i - 1]) * 16 + HexVal(s[2 * i])]]

(***************************************************************************)
(* basex_rs::BaseX with the BITCOIN alphabet: the base-x digit algorithm.  *)
(***************************************************************************)
\* "123456789ABCDEFGHJKLMNPQRSTUVWXYZabcdefghijkmnopqrstuvwxyz"
BITCOIN ==
  <<49, 50, 51, 52, 53, 54, 55, 56, 57,
    65, 66, 67, 68, 69, 70, 71, 72, 74, 75, 76, 77, 78, 80, 81, 82, 83, 84, 85, 86, 87, 88, 89, 90,
    97, 98, 99, 100, 101, 102, 103, 104, 105, 106, 107, 109, 110, 111, 112, 113, 114, 115, 116,
    117, 118, 119, 120, 121, 122>>

\* The index (from 0) of character c in the alphabet, -1 when it is not in it.
AlphabetIndex(c) ==
  IF \E i \in 1..Len(BITCOIN) : BITCOIN[i] = c
  THEN (CHOOSE i \in 1..Len(BITCOIN) : BITCOIN[i] = c) - 1
  ELSE -1

RECURSIVE MulAdd(_, _, _, _)
\* One pass over the little-endian digits ds in base `base`: every digit is
\* multiplied by mul and carry is added, the carry that is left is pushed.
\* (u16 arithmetic in the crate; the carry never exceeds 255 + 57 * 256.)
MulAdd(ds, carry, mul, base) ==
  IF ds = <<>>
  THEN IF carry = 0 THEN <<>>
       ELSE <<carry % base>> \o MulAdd(<<>>, carry \div base, mul, base)
  ELSE LET c == carry + Head(ds) * mul
       IN  <<c % base>> \o MulAdd(Tail(ds), c \div base, mul, base)

RECURSIVE EncodeDigits(_)
\* The little-endian base-58 digits of the big-endian bytes src, from digits = [0].
EncodeDigits(src) ==
  IF src = <<>> THEN <<0>>
  ELSE MulAdd(EncodeDigits(SubSeq(src, 1, Len(src) - 1)), src[Len(src)], 256, 58)

RECURSIVE LeadingCount(_, _, _)
\* The number of leading elements of s equal to x, among all but the last.
LeadingCount(s, x, k) ==
  IF k < Len(s) /\ s[k] = x THEN 1 + LeadingCount(s, x, k + 1) ELSE 0

Reverse(s) == [i \in 1..Len(s) |-> s[Len(s) + 1 - i]]

\* BaseX::new(BITCOIN).encode(source)
Base58Encode(source) ==
  IF source = <<>> THEN <<>>
  ELSE LET digits == EncodeDigits(source)
       IN  [i \in 1..LeadingCount(source, 0, 1) |-> BITCOIN[1]]
             \o [i \in 1..Len(digits) |-> BITCOIN[digits[Len(digits) + 1 - i] + 1]]

RECURSIVE DecodeBytes(_)
\* The little-endian bytes of the base-58 digits of s, from bytes = [0].
DecodeBytes(s) ==
  IF s = <<>> THEN <<0>>
  ELSE MulAdd(DecodeBytes(SubSeq(s, 1, Len(s) - 1)), AlphabetIndex(s[Len(s)]), 58, 256)

\* BaseX::new(BITCOIN).decode(source): None on a character outside the alphabet.
Base58Decode(source) ==
  IF source = <<>> THEN [some |-> TRUE, bytes |-> <<>>]
  ELSE IF \E i \in 1..Len(source) : AlphabetIndex(source[i]) = -1
  THEN [some |-> FALSE, bytes |-> <<>>]
  ELSE [some |-> TRUE,
        bytes |-> Reverse(DecodeBytes(source)
                            \o [i \in 1..LeadingCount(source, BITCOIN[1], 1) |-> 0])]

(***************************************************************************)
(* The library: QtumNetwork and QtumAddress.                               *)
(***************************************************************************)
Networks == {"Mainnet", "Testnet"}

\* Results: Ok(String) and Err(&str) of the two conversions, a plain returned
\* value, and a panic.
Ok(v) == [kind |-> "Ok", val |-> v]
Err(msg) == [kind |-> "Err", val |-> msg]
Value(v) == [kind |-> "Value", val |-> v]
Panic == [kind |-> "Panic", val |-> ""]

\* A slip in to_prefix_byte: both arms give the testnet byte.
to_prefix_byte_same(network) ==
  CASE network = "Mainnet" -> 120
    [] network = "Testnet" -> 120

\* QtumNetwork::to_prefix_byte
to_prefix_byte(network) ==
  CASE network = "Mainnet" -> 58      \* 0x3a
    [] network = "Testnet" -> 120     \* 0x78

\* A slip in from: the catch-all arm returns a network instead of panicking.
from_no_panic(item) ==
  CASE item = 58 -> Value("Mainnet")
    [] item = 120 -> Value("Testnet")
    [] OTHER -> Value("Testnet")

\* impl From<u8> for QtumNetwork
from(item) ==
  CASE item = 58 -> Value("Mainnet")
    [] item = 120 -> Value("Testnet")
    [] OTHER -> Panic

\* QtumAddress::new
new(network) == [prefix |-> to_prefix_byte(network)]

\* QtumAddress::hash: the digest is printed as hex and decoded again (unwrap).
hash(self, byte) ==
  LET d == HexDecode(HexEncode(Sha256(byte)))
  IN  IF d.ok THEN Value(d.bytes) ELSE Panic

\* Slips in the range: get(0..20), which keeps the prefix byte;
GetPayloadFromFirst(decode_bytes) ==
  IF Len(decode_bytes) >= 20
  THEN [some |-> TRUE, bytes |-> SubSeq(decode_bytes, 1, 20)]
  ELSE [some |-> FALSE, bytes |-> <<>>]

\* the payload only of a sequence that has room for a checksum (25 bytes);
GetPayloadNeedsChecksum(decode_bytes) ==
  IF Len(decode_bytes) >= 25
  THEN [some |-> TRUE, bytes |-> SubSeq(decode_bytes, 2, 21)]
  ELSE [some |-> FALSE, bytes |-> <<>>]

\* get(1..), which runs to the end.
GetPayloadToEnd(decode_bytes) ==
  IF Len(decode_bytes) >= 21
  THEN [some |-> TRUE, bytes |-> SubSeq(decode_bytes, 2, Len(decode_bytes))]
  ELSE [some |-> FALSE, bytes |-> <<>>]

\* decode_bytes.get(1..21): the 20 bytes after the first one, None when there
\* are fewer than 21.
GetPayload(decode_bytes) ==
  IF Len(decode_bytes) >= 21
  THEN [some |-> TRUE, bytes |-> SubSeq(decode_bytes, 2, 21)]
  ELSE [some |-> FALSE, bytes |-> <<>>]

\* A gethexaddress that rejects an address of another network.
gethexaddress_checks_prefix(self, address) ==
  IF address = <<>> THEN Err("Invalid address")
  ELSE LET decoded == Base58Decode(address)
       IN  IF ~decoded.some THEN Err("Invalid address")
           ELSE LET new_bytes == GetPayload(decoded.bytes)
                IN  IF ~new_bytes.some \/ decoded.bytes[1] # self.prefix
                    THEN Err("Invalid address")
                    ELSE Ok(HexEncode(new_bytes.bytes))

\* QtumAddress::gethexaddress
gethexaddress(self, address) ==
  IF address = <<>> THEN Err("Invalid address")
  ELSE LET decoded == Base58Decode(address)
       IN  IF ~decoded.some THEN Err("Invalid address")
           ELSE LET new_bytes == GetPayload(decoded.bytes)
                IN  IF ~new_bytes.some THEN Err("Invalid address")
                    ELSE Ok(HexEncode(new_bytes.bytes))

\* Slips in the checksum: one hash instead of two;
ChecksumSingleHash(self, address_bytes) == hash(self, address_bytes)

\* the double hash of the payload without the prefix byte.
ChecksumWithoutPrefix(self, address_bytes) ==
  LET inner == hash(self, Tail(address_bytes))
  IN  IF inner.kind = "Panic" THEN Panic ELSE hash(self, inner.val)

\* self.hash(&self.hash(&address_bytes))
Checksum(self, address_bytes) ==
  LET inner == hash(self, address_bytes)
  IN  IF inner.kind = "Panic" THEN Panic ELSE hash(self, inner.val)

\* A length check that only rejects the empty string.
BadLengthEmptyOnly(address) == address = <<>>

\* address.is_empty() || address.len() != 40 (len is the length in bytes)
BadLength(address) == address = <<>> \/ Len(address) # 40

\* QtumAddress::fromhexaddress
fromhexaddress(self, address) ==
  IF BadLength(address) THEN Err("Invalid address")
  ELSE LET decoded == HexDecode(address)
       IN  IF ~decoded.ok THEN Err("Invalid address")
           ELSE LET address_bytes == <<self.prefix>> \o decoded.bytes
                    checksum      == Checksum(self, address_bytes)
                IN  IF checksum.kind = "Panic" THEN Panic
                    ELSE IF Len(checksum.val) < 4 THEN Err("Invalid address")
                    ELSE Ok(Base58Encode(address_bytes \o SubSeq(checksum.val, 1, 4)))

\* QtumAddress::addprefix: format!("0x{}", address)
addprefix(address) == <<48, 120>> \o address

(***************************************************************************)
(* Inputs of the calls.                                                    *)
(***************************************************************************)
\* tests::it_works_testnet: the hex addresses
eth_addresses ==
  <<
     \* "6c89a1a6ca2ae7c00b248bb2832d6f480f27da68"
     <<54, 99, 56, 57, 97, 49, 97, 54, 99, 97, 50, 97, 101, 55, 99, 48, 48, 98, 50, 52,
       56, 98, 98, 50, 56, 51, 50, 100, 54, 102, 52, 56, 48, 102, 50, 55, 100, 97, 54, 56>>,
     \* "49a80104c0d27a9ba29678d07e87a57151107613"
     <<52, 57, 97, 56, 48, 49, 48, 52, 99, 48, 100, 50, 55, 97, 57, 98, 97, 50, 57, 54,
       55, 56, 100, 48, 55, 101, 56, 55, 97, 53, 55, 49, 53, 49, 49, 48, 55, 54, 49, 51>>,
     \* "7926223070547d2d15b2ef5e7383e541c338ffe9"
     <<55, 57, 50, 54, 50, 50, 51, 48, 55, 48, 53, 52, 55, 100, 50, 100, 49, 53, 98, 50,
       101, 102, 53, 101, 55, 51, 56, 51, 101, 53, 52, 49, 99, 51, 51, 56, 102, 102, 101, 57>>,
     \* "2352be3db3177f0a07efbe6da5857615b8c9901d"
     <<50, 51, 53, 50, 98, 101, 51, 100, 98, 51, 49, 55, 55, 102, 48, 97, 48, 55, 101, 102,
       98, 101, 54, 100, 97, 53, 56, 53, 55, 54, 49, 53, 98, 56, 99, 57, 57, 48, 49, 100>>,
     \* "69b004ac2b3993bf2fdf56b02746a1f57997420d"
     <<54, 57, 98, 48, 48, 52, 97, 99, 50, 98, 51, 57, 57, 51, 98, 102, 50, 102, 100, 102,
       53, 54, 98, 48, 50, 55, 52, 54, 97, 49, 102, 53, 55, 57, 57, 55, 52, 50, 48, 100>>,
     \* "8c647515f03daeefd09872d7530fa8d8450f069a"
     <<56, 99, 54, 52, 55, 53, 49, 53, 102, 48, 51, 100, 97, 101, 101, 102, 100, 48, 57, 56,
       55, 50, 100, 55, 53, 51, 48, 102, 97, 56, 100, 56, 52, 53, 48, 102, 48, 54, 57, 97>>,
     \* "2191744eb5ebeac90e523a817b77a83a0058003b"
     <<50, 49, 57, 49, 55, 52, 52, 101, 98, 53, 101, 98, 101, 97, 99, 57, 48, 101, 53, 50,
       51, 97, 56, 49, 55, 98, 55, 55, 97, 56, 51, 97, 48, 48, 53, 56, 48, 48, 51, 98>>,
     \* "88b0bf4b301c21f8a47be2188bad6467ad556dcf"
     <<56, 56, 98, 48, 98, 102, 52, 98, 51, 48, 49, 99, 50, 49, 102, 56, 97, 52, 55, 98,
       101, 50, 49, 56, 56, 98, 97, 100, 54, 52, 54, 55, 97, 100, 53, 53, 54, 100, 99, 102>>
  >>

\* tests::it_works_testnet: the testnet addresses, in the same order
qtum_addresses ==
  <<
     \* "qTTH1Yr2eKCuDLqfxUyBLCAjmomQ8pyrBt"
     <<113, 84, 84, 72, 49, 89, 114, 50, 101, 75, 67, 117, 68, 76, 113, 102, 120, 85, 121, 66,
       76, 67, 65, 106, 109, 111, 109, 81, 56, 112, 121, 114, 66, 116>>,
     \* "qQGqkA16ZY6bCYy7Qjr77eU4BPsdadibCG"
     <<113, 81, 71, 113, 107, 65, 49, 54, 90, 89, 54, 98, 67, 89, 121, 55, 81, 106, 114, 55,
       55, 101, 85, 52, 66, 80, 115, 100, 97, 100, 105, 98, 67, 71>>,
     \* "qUbxboqjBRp96j3La8D1RYkyqx5uQbJPoW"
     <<113, 85, 98, 120, 98, 111, 113, 106, 66, 82, 112, 57, 54, 106, 51, 76, 97, 56, 68, 49,
       82, 89, 107, 121, 113, 120, 53, 117, 81, 98, 74, 80, 111, 87>>,
     \* "qLn9vqbr2Gx3TsVR9QyTVB5mrMoh4x43Uf"
     <<113, 76, 110, 57, 118, 113, 98, 114, 50, 71, 120, 51, 84, 115, 86, 82, 57, 81, 121, 84,
       86, 66, 53, 109, 114, 77, 111, 104, 52, 120, 52, 51, 85, 102>>,
     \* "qTCCy8qy7pW94EApdoBjYc1vQ2w68UnXPi"
     <<113, 84, 67, 67, 121, 56, 113, 121, 55, 112, 87, 57, 52, 69, 65, 112, 100, 111, 66, 106,
       89, 99, 49, 118, 81, 50, 119, 54, 56, 85, 110, 88, 80, 105>>,
     \* "qWMi6ne9mDQFatRGejxdDYVUV9rQVkAFGp"
     <<113, 87, 77, 105, 54, 110, 101, 57, 109, 68, 81, 70, 97, 116, 82, 71, 101, 106, 120, 100,
       68, 89, 86, 85, 86, 57, 114, 81, 86, 107, 65, 70, 71, 112>>,
     \* "qLcshhsRS6HKeTKRYFdpXnGVZxw96QQcfm"
     <<113, 76, 99, 115, 104, 104, 115, 82, 83, 54, 72, 75, 101, 84, 75, 82, 89, 70, 100, 112,
       88, 110, 71, 86, 90, 120, 119, 57, 54, 81, 81, 99, 102, 109>>,
     \* "qW28njWueNpBXYWj2KDmtFG2gbLeALeHfV"
     <<113, 87, 50, 56, 110, 106, 87, 117, 101, 78, 112, 66, 88, 89, 87, 106, 50, 75, 68, 109,
       116, 70, 71, 50, 103, 98, 76, 101, 65, 76, 101, 72, 102, 86>>
  >>

\* Textual addresses that are empty, not base-58 or too short.
MalformedText ==
  {
     \* the empty string
     <<>>,
     \* "not-base58!"
     <<110, 111, 116, 45, 98, 97, 115, 101, 53, 56, 33>>,
     \* "qTTH1Yr2eKCuDLqfxUyBLCAjmomQ8pyrB0": the digit 0
     <<113, 84, 84, 72, 49, 89, 114, 50, 101, 75, 67, 117, 68, 76, 113, 102, 120, 85, 121, 66,
       76, 67, 65, 106, 109, 111, 109, 81, 56, 112, 121, 114, 66, 48>>,
     \* "OTTH1Yr2eKCuDLqfxUyBLCAjmomQ8pyrBt": the letter O
     <<79, 84, 84, 72, 49, 89, 114, 50, 101, 75, 67, 117, 68, 76, 113, 102, 120, 85, 121, 66,
       76, 67, 65, 106, 109, 111, 109, 81, 56, 112, 121, 114, 66, 116>>,
     \* "qTTH1Yr2eKCuDLqfIUyBLCAjmomQ8pyrBt": the letter I
     <<113, 84, 84, 72, 49, 89, 114, 50, 101, 75, 67, 117, 68, 76, 113, 102, 73, 85, 121, 66,
       76, 67, 65, 106, 109, 111, 109, 81, 56, 112, 121, 114, 66, 116>>,
     \* "qTTH1Yr2eKCuDLqfxUyBLCAjmomQ8pyrBl": the letter l
     <<113, 84, 84, 72, 49, 89, 114, 50, 101, 75, 67, 117, 68, 76, 113, 102, 120, 85, 121, 66,
       76, 67, 65, 106, 109, 111, 109, 81, 56, 112, 121, 114, 66, 108>>,
     \* "qTTH1Yr2eKCuDLqfxUyBLCAjmomQ8pyrBé": a two-byte UTF-8 character
     <<113, 84, 84, 72, 49, 89, 114, 50, 101, 75, 67, 117, 68, 76, 113, 102, 120, 85, 121, 66,
       76, 67, 65, 106, 109, 111, 109, 81, 56, 112, 121, 114, 66, 195, 169>>,
     \* "qTTH1Yr2 KCuDLqfxUyBLCAjmomQ8pyrBt": a space
     <<113, 84, 84, 72, 49, 89, 114, 50, 32, 75, 67, 117, 68, 76, 113, 102, 120, 85, 121, 66,
       76, 67, 65, 106, 109, 111, 109, 81, 56, 112, 121, 114, 66, 116>>,
     \* "1": one zero byte
     <<49>>,
     \* "qTTH1Yr2eKCuDLqf": too short
     <<113, 84, 84, 72, 49, 89, 114, 50, 101, 75, 67, 117, 68, 76, 113, 102>>
  }

\* Hex addresses that are empty, of a wrong length or not hexadecimal.
MalformedHex ==
  {
     \* the empty string
     <<>>,
     \* "abc"
     <<97, 98, 99>>,
     \* "zz" twenty times
     <<122, 122, 122, 122, 122, 122, 122, 122, 122, 122, 122, 122, 122, 122, 122, 122, 122, 122, 122, 122,
       122, 122, 122, 122, 122, 122, 122, 122, 122, 122, 122, 122, 122, 122, 122, 122, 122, 122, 122, 122>>,
     \* 38 hex digits
     <<54, 99, 56, 57, 97, 49, 97, 54, 99, 97, 50, 97, 101, 55, 99, 48, 48, 98, 50, 52,
       56, 98, 98, 50, 56, 51, 50, 100, 54, 102, 52, 56, 48, 102, 50, 55, 100, 97>>,
     \* 42 hex digits
     <<54, 99, 56, 57, 97, 49, 97, 54, 99, 97, 50, 97, 101, 55, 99, 48, 48, 98, 50, 52,
       56, 98, 98, 50, 56, 51, 50, 100, 54, 102, 52, 56, 48, 102, 50, 55, 100, 97, 54, 56,
       48, 48>>,
     \* 39 hex digits
     <<54, 99, 56, 57, 97, 49, 97, 54, 99, 97, 50, 97, 101, 55, 99, 48, 48, 98, 50, 52,
       56, 98, 98, 50, 56, 51, 50, 100, 54, 102, 52, 56, 48, 102, 50, 55, 100, 97, 54>>,
     \* 41 hex digits
     <<54, 99, 56, 57, 97, 49, 97, 54, 99, 97, 50, 97, 101, 55, 99, 48, 48, 98, 50, 52,
       56, 98, 98, 50, 56, 51, 50, 100, 54, 102, 52, 56, 48, 102, 50, 55, 100, 97, 54, 56,
       48>>,
     \* "0x" and 40 hex digits
     <<48, 120, 54, 99, 56, 57, 97, 49, 97, 54, 99, 97, 50, 97, 101, 55, 99, 48, 48, 98,
       50, 52, 56, 98, 98, 50, 56, 51, 50, 100, 54, 102, 52, 56, 48, 102, 50, 55, 100, 97,
       54, 56>>,
     \* "0x" and 38 hex digits: 40 characters
     <<48, 120, 54, 99, 56, 57, 97, 49, 97, 54, 99, 97, 50, 97, 101, 55, 99, 48, 48, 98,
       50, 52, 56, 98, 98, 50, 56, 51, 50, 100, 54, 102, 52, 56, 48, 102, 50, 55, 100, 97>>,
     \* 38 hex digits and a two-byte UTF-8 character: 40 bytes
     <<54, 99, 56, 57, 97, 49, 97, 54, 99, 97, 50, 97, 101, 55, 99, 48, 48, 98, 50, 52,
       56, 98, 98, 50, 56, 51, 50, 100, 54, 102, 52, 56, 48, 102, 50, 55, 100, 97, 195, 169>>,
     \* 39 hex digits and a two-byte UTF-8 character: 40 characters, 41 bytes
     <<54, 99, 56, 57, 97, 49, 97, 54, 99, 97, 50, 97, 101, 55, 99, 48, 48, 98, 50, 52,
       56, 98, 98, 50, 56, 51, 50, 100, 54, 102, 52, 56, 48, 102, 50, 55, 100, 97, 54, 195,
       169>>,
     \* a space among 39 hex digits
     <<54, 99, 56, 57, 97, 49, 97, 54, 99, 97, 50, 97, 101, 55, 99, 48, 48, 98, 50, 52,
       32, 98, 98, 50, 56, 51, 50, 100, 54, 102, 52, 56, 48, 102, 50, 55, 100, 97, 54, 56>>
  }

\* Number of generated 20-byte payloads, and the largest number of bytes that
\* follow the payload in a crafted address (4 is a checksum's length).
NumPayloads == 2
MaxTail == 5

\* Generated payload number k: all zeros, all 0xff, then a pattern.
Payload(k) ==
  [i \in 1..20 |-> IF k = 0 THEN 0 ELSE IF k = 1 THEN 255 ELSE (k * 37 + i * 11) % 256]

\* First bytes of crafted addresses: zero, the mainnet prefix, 0xff.
CraftedPrefixes == {0, 58, 255}

\* A crafted byte sequence of len bytes: a first byte p, payload number k and
\* bytes that are no checksum, cut to len (19 and 20: no whole payload).
Crafted(p, k, len) ==
  SubSeq(<<p>> \o Payload(k) \o [i \in 1..MaxTail |-> (i * 29 + k) % 256], 1, len)

CraftedText ==
  { Base58Encode(Crafted(p, k, len)) :
      p \in CraftedPrefixes, k \in 0..(NumPayloads - 1), len \in 19..(21 + MaxTail) }

Range(s) == { s[i] : i \in 1..Len(s) }

\* The strings handed to gethexaddress.
TextInputs == Range(qtum_addresses) \cup MalformedText \cup CraftedText

ToUpper(s) == [i \in 1..Len(s) |-> IF s[i] >= 97 /\ s[i] <= 122 THEN s[i] - 32 ELSE s[i]]
ToLower(s) == [i \in 1..Len(s) |-> IF s[i] >= 65 /\ s[i] <= 90 THEN s[i] + 32 ELSE s[i]]
MixedCase(s) == [i \in 1..Len(s) |-> IF i % 2 = 1 THEN ToUpper(s)[i] ELSE s[i]]

\* 40 lowercase hex digits: the tests' addresses and the generated payloads.
LowerHex == Range(eth_addresses) \cup { HexEncode(Payload(k)) : k \in 0..(NumPayloads - 1) }

\* The same with upper case digits, everywhere or at the odd positions.
UpperHex ==
  LET hs == { eth_addresses[1] } \cup { HexEncode(Payload(k)) : k \in 0..(NumPayloads - 1) }
  IN  { ToUpper(h) : h \in hs } \cup { MixedCase(h) : h \in hs }

\* Bytes at and next to the ends of the three ranges of hex digits.
BoundaryChars == {0, 47, 48, 57, 58, 64, 65, 70, 71, 96, 97, 102, 103, 127, 128, 255}

\* A test address with its first or last character replaced.
ReplacedHex == { [eth_addresses[1] EXCEPT ![p] = c] : p \in {1, 40}, c \in BoundaryChars }

\* The strings handed to fromhexaddress.
HexInputs == LowerHex \cup UpperHex \cup ReplacedHex \cup MalformedHex

(***************************************************************************)
(* A caller of the library: it constructs a QtumAddress, makes a call and   *)
(* may make a second one on the string the first returned, as the tests    *)
(* do; the library keeps no state between calls but self.prefix.           *)
(***************************************************************************)
VARIABLES
  network,   \* the QtumNetwork that was given to QtumAddress::new
  self,      \* the QtumAddress
  op,        \* the last call
  arg,       \* its argument
  res,       \* its result
  prev       \* the call before, when arg is the string it returned

vars == <<network, self, op, arg, res, prev>>

NoCall == [op |-> "none", arg |-> <<>>, res |-> Value(<<>>)]

Init ==
  /\ network \in Networks
  /\ self = new(network)
  /\ op = "new"
  /\ arg = network
  /\ res = Value(self)
  /\ prev = NoCall

\* The QtumAddress is constructed and no call is made yet.
Fresh == op = "new"

\* let qtum = QtumAddress::new(n)
New(n) ==
  /\ res.kind # "Panic"    \* a panic ends the caller
  /\ network' = n
  /\ self' = new(n)
  /\ op' = "new"
  /\ arg' = n
  /\ res' = Value(self')
  /\ prev' = NoCall

\* QtumNetwork::from(b)
FromU8(b) ==
  /\ Fresh
  /\ op' = "from"
  /\ arg' = b
  /\ res' = from(b)
  /\ prev' = NoCall
  /\ UNCHANGED <<network, self>>

\* qtum.gethexaddress(a)
GetHexAddress(a) ==
  /\ Fresh
  /\ op' = "gethexaddress"
  /\ arg' = a
  /\ res' = gethexaddress(self, a)
  /\ prev' = NoCall
  /\ UNCHANGED <<network, self>>

\* qtum.fromhexaddress(h)
FromHexAddress(h) ==
  /\ Fresh
  /\ op' = "fromhexaddress"
  /\ arg' = h
  /\ res' = fromhexaddress(self, h)
  /\ prev' = NoCall
  /\ UNCHANGED <<network, self>>

\* qtum.gethexaddress(&qtum_addr), qtum_addr being what fromhexaddress returned
GetHexOfResult ==
  /\ op = "fromhexaddress"
  /\ res.kind = "Ok"
  /\ prev.op = "none"
  /\ op' = "gethexaddress"
  /\ arg' = res.val
  /\ res' = gethexaddress(self, res.val)
  /\ prev' = [op |-> op, arg |-> arg, res |-> res]
  /\ UNCHANGED <<network, self>>

\* qtum.fromhexaddress(&eth_addr), eth_addr being what gethexaddress returned
FromHexOfResult ==
  /\ op = "gethexaddress"
  /\ res.kind = "Ok"
  /\ prev.op = "none"
  /\ op' = "fromhexaddress"
  /\ arg' = res.val
  /\ res' = fromhexaddress(self, res.val)
  /\ prev' = [op |-> op, arg |-> arg, res |-> res]
  /\ UNCHANGED <<network, self>>

\* QtumAddress::addprefix(h)
AddPrefix(h) ==
  /\ Fresh
  /\ op' = "addprefix"
  /\ arg' = h
  /\ res' = Value(addprefix(h))
  /\ prev' = NoCall
  /\ UNCHANGED <<network, self>>

Next ==
  \/ \E n \in Networks : New(n)
  \/ \E b \in 0..255 : FromU8(b)
  \/ \E a \in TextInputs : GetHexAddress(a)
  \/ \E h \in HexInputs : FromHexAddress(h)
  \/ GetHexOfResult
  \/ FromHexOfResult
  \/ \E h \in HexInputs : AddPrefix(h)

Spec == Init /\ [][Next]_vars

(***************************************************************************)
(* Properties.                                                             *)
(***************************************************************************)
IsHexDigit(c) == c \in (48..57) \cup (65..70) \cup (97..102)
IsLowerHexDigit(c) == c \in (48..57) \cup (97..102)
IsHex40(s) == Len(s) = 40 /\ \A i \in 1..40 : IsHexDigit(s[i])
IsLowerHex40(s) == Len(s) = 40 /\ \A i \in 1..40 : IsLowerHexDigit(s[i])
HasUpper(s) == \E i \in 1..Len(s) : s[i] \in 65..70
InAlphabet(c) == c \in Range(BITCOIN)

\* The first 4 bytes of SHA256(SHA256(buffer)).
Checksum4(buffer) == SubSeq(Sha256(Sha256(buffer)), 1, 4)

\* Whether r and q are the same result.
SameResult(r, q) == r.kind = q.kind /\ r.val = q.val

\* C1: round trip hex -> textual -> hex. For a string H of 40 lowercase hex
\* digits and a codec of either network, fromhexaddress(H) is Ok(T), and
\* gethexaddress(T) on the same codec is Ok(H).
C1_RoundTripHex ==
  /\ (op = "fromhexaddress" /\ IsLowerHex40(arg)) => res.kind = "Ok"
  /\ (op = "gethexaddress" /\ prev.op = "fromhexaddress" /\ IsLowerHex40(prev.arg))
       => (res.kind = "Ok" /\ res.val = prev.arg)

C1_Witness ==
  /\ op = "gethexaddress"
  /\ prev.op = "fromhexaddress"
  /\ network = "Mainnet"
  /\ prev.arg = eth_addresses[2]
  /\ res.kind = "Ok"
  /\ res.val = eth_addresses[2]

\* C2: round trip textual -> hex -> textual. For a textual address A that
\* gethexaddress accepts, with payload P, fromhexaddress(gethexaddress(A)) on a
\* codec of prefix N is Ok(A'), A' the canonical base58check encoding of (N, P);
\* A' = A when A decodes to N, 20 bytes and the 4 bytes of their checksum.
C2_RoundTripText ==
  (op = "fromhexaddress" /\ prev.op = "gethexaddress")
    => LET A == prev.arg
           D == Base58Decode(A).bytes
           P == SubSeq(D, 2, 21)
           N == self.prefix
           c == Checksum4(<<N>> \o P)
       IN  /\ res.kind = "Ok"
           /\ res.val = Base58Encode(<<N>> \o P \o c)
           /\ (Len(D) = 25 /\ D[1] = N /\ SubSeq(D, 22, 25) = c) => res.val = A

C2_Witness ==
  /\ op = "fromhexaddress"
  /\ prev.op = "gethexaddress"
  /\ network = "Testnet"
  /\ prev.arg = qtum_addresses[3]
  /\ res.kind = "Ok"
  /\ res.val = qtum_addresses[3]

\* C3: fromhexaddress returns Err("Invalid address") for an input that is empty,
\* whose length is not 40 or that holds a byte that is no hex digit; it returns
\* Ok exactly for 40 hex digits, and it never panics.
C3_FromHexRejects ==
  op = "fromhexaddress"
    => /\ res.kind \in {"Ok", "Err"}
       /\ res.kind = "Ok" <=> IsHex40(arg)
       /\ res.kind = "Err" => res.val = "Invalid address"

C3_Witness ==
  /\ op = "fromhexaddress"
  /\ Len(arg) = 42
  /\ \A i \in 1..Len(arg) : IsHexDigit(arg[i])
  /\ res.kind = "Err"

\* C4: gethexaddress returns Err("Invalid address") for an input that is empty,
\* that holds a character outside the Bitcoin alphabet or whose base-58
\* decoding has fewer than 21 bytes; it returns Ok for every other input.
C4_GetHexRejects ==
  op = "gethexaddress"
    => /\ res.kind \in {"Ok", "Err"}
       /\ res.kind = "Ok" <=> /\ arg # <<>>
                              /\ \A i \in 1..Len(arg) : InAlphabet(arg[i])
                              /\ Len(Base58Decode(arg).bytes) >= 21
       /\ res.kind = "Err" => res.val = "Invalid address"

C4_Witness ==
  /\ op = "gethexaddress"
  /\ prev.op = "none"
  /\ res.kind = "Ok"
  /\ Len(Base58Decode(arg).bytes) = 21

\* C5: a string that gethexaddress returns has exactly 40 characters, all
\* lowercase hex digits, whatever the input; a string that fromhexaddress
\* returns is not empty.
C5_ResultLengths ==
  /\ (op = "gethexaddress" /\ res.kind = "Ok") => IsLowerHex40(res.val)
  /\ (op = "fromhexaddress" /\ res.kind = "Ok") => Len(res.val) > 0

C5_Witness ==
  /\ op = "gethexaddress"
  /\ prev.op = "none"
  /\ res.kind = "Ok"
  /\ Len(Base58Decode(arg).bytes) > 25
  /\ Len(res.val) = 40

\* C6: for a payload of 40 hex digits, fromhexaddress on a Mainnet codec
\* (prefix 0x3a) and on a Testnet codec (prefix 0x78) both succeed and return
\* two different textual addresses.
C6_NetworksDiverge ==
  (op = "fromhexaddress" /\ IsHex40(arg))
    => /\ self.prefix = (IF network = "Mainnet" THEN 58 ELSE 120)
       /\ res.kind = "Ok"
       /\ \A n \in Networks \ {network} :
            LET other == fromhexaddress(new(n), arg)
            IN  other.kind = "Ok" /\ other.val # res.val

C6_Witness ==
  /\ op = "fromhexaddress"
  /\ prev.op = "none"
  /\ network = "Mainnet"
  /\ arg = eth_addresses[4]
  /\ res.kind = "Ok"
  /\ res.val # qtum_addresses[4]

\* C7: gethexaddress checks neither the prefix byte nor the checksum. For a
\* base-58 string whose decoding D has at least 21 bytes the result is
\* Ok(hex of D[1..21)), whatever D[0], the bytes from index 21 on and the
\* codec's prefix are; a Mainnet codec and a Testnet codec return the same
\* result for every input.
C7_GetHexVerifiesNothing ==
  op = "gethexaddress"
    => LET D == Base58Decode(arg)
       IN  /\ (arg # <<>> /\ D.some /\ Len(D.bytes) >= 21)
                => (res.kind = "Ok" /\ res.val = HexEncode(SubSeq(D.bytes, 2, 21)))
           /\ \A n \in Networks : SameResult(gethexaddress(new(n), arg), res)

C7_Witness ==
  /\ op = "gethexaddress"
  /\ prev.op = "none"
  /\ res.kind = "Ok"
  /\ Base58Decode(arg).bytes[1] \notin {58, 120}
  /\ Len(Base58Decode(arg).bytes) = 23
  /\ res.val = HexEncode(Payload(1))

\* C8: to_prefix_byte maps Mainnet to 0x3a and Testnet to 0x78; from(byte) is
\* its inverse on these two bytes and panics on every other byte;
\* QtumAddress::new stores to_prefix_byte(network) and does not fail.
C8_NetworkBijection ==
  /\ to_prefix_byte("Mainnet") = 58
  /\ to_prefix_byte("Testnet") = 120
  /\ self.prefix = to_prefix_byte(network)
  /\ op = "new" => (res.kind = "Value" /\ res.val.prefix = to_prefix_byte(arg))
  /\ op = "from"
       => IF \E n \in Networks : to_prefix_byte(n) = arg
          THEN res.kind = "Value" /\ res.val \in Networks /\ to_prefix_byte(res.val) = arg
          ELSE res.kind = "Panic"

C8_Witness ==
  /\ op = "from"
  /\ arg = 121
  /\ res.kind = "Panic"

\* C9: for 40 hex digits encoding the 20 bytes P, the string fromhexaddress
\* returns is the base-58 encoding of exactly 25 bytes: the codec's prefix byte,
\* P, and the first 4 bytes of SHA256(SHA256(prefix, P)).
C9_Envelope ==
  (op = "fromhexaddress" /\ IsHex40(arg))
    => /\ res.kind = "Ok"
       /\ LET P == HexDecode(arg).bytes
              D == Base58Decode(res.val)
          IN  /\ D.some
              /\ Len(D.bytes) = 25
              /\ D.bytes[1] = self.prefix
              /\ SubSeq(D.bytes, 2, 21) = P
              /\ SubSeq(D.bytes, 22, 25) = Checksum4(<<self.prefix>> \o P)
              /\ res.val = Base58Encode(D.bytes)

C9_Witness ==
  /\ op = "fromhexaddress"
  /\ prev.op = "none"
  /\ network = "Testnet"
  /\ arg = eth_addresses[1]
  /\ res.kind = "Ok"
  /\ res.val = qtum_addresses[1]

\* C10: fromhexaddress takes upper case hex digits and gethexaddress returns
\* lower case ones. For 40 hex digits H with an upper case digit,
\* fromhexaddress(H) is Ok and equals fromhexaddress(lowercase(H)), and
\* gethexaddress of it is Ok(lowercase(H)), which is not H.
C10_CaseInsensitive ==
  /\ (op = "fromhexaddress" /\ IsHex40(arg) /\ HasUpper(arg))
       => (res.kind = "Ok" /\ SameResult(fromhexaddress(self, ToLower(arg)), res))
  /\ (op = "gethexaddress" /\ prev.op = "fromhexaddress" /\ HasUpper(prev.arg))
       => (res.kind = "Ok" /\ res.val = ToLower(prev.arg) /\ res.val # prev.arg)

C10_Witness ==
  /\ op = "gethexaddress"
  /\ prev.op = "fromhexaddress"
  /\ HasUpper(prev.arg)
  /\ res.kind = "Ok"
  /\ res.val = eth_addresses[1]
  /\ res.val # prev.arg
====
